---- MODULE Spec2Model ----
(***************************************************************************)
(* Model of poetry/console/application.py: the console Application, its    *)
(* lazily loaded command registry, the cached `poetry` property and the    *)
(* three listeners it attaches to the COMMAND event.                       *)
(*                                                                         *)
(* Strings are TLA+ strings; a character is a string of length 1.          *)
(* Python's None is modelled by 0 for object references.                   *)
(***************************************************************************)
EXTENDS Integers, Sequences, FiniteSets, TLC

VARIABLES
    _poetry,        \* Application._poetry: None or the id of a Poetry object
    created,        \* number of Factory().create_poetry() calls so far
    poetryLog,      \* history of reads of Application.poetry and reset_poetry calls
    config,         \* poetry.config: the settings that are present
    commands,       \* the command objects: class, env, installer, loggers
    envs,           \* the Env objects returned by EnvManager.create_venv()
    output,         \* the envs announced with io.write_line("Using virtualenv: ...")
    installers,     \* the Installer objects constructed by set_installer
    executorCalls,  \* the calls of Installer.use_executor, in order
    handlers,       \* logging.getLogger(n).handlers, per logger name
    levels,         \* logging.getLogger(n).level, per logger name
    events,         \* the COMMAND events dispatched so far
    position,       \* 0: idle; i: listener i is next; Len(Listeners)+1: command runs
    calls,          \* what the dispatcher has called for the current event
    ops,            \* number of direct poetry reads/resets (bounded)
    factories,      \* FactoryCommandLoader._factories: name -> loader
    imported,       \* modules imported by import_module
    instances,      \* command instances built by the loaders, in order
    name,           \* input of load_command when it is called directly
    words           \* the words that name was made of, <<>> for a name of COMMANDS

vars == <<_poetry, created, poetryLog, config, commands, envs, output,
          installers, executorCalls, handlers, levels, events, position,
          calls, ops, factories, imported, instances, name, words>>

\* the state of the command loader
loaderVars == <<factories, imported, instances, name, words>>

\* the state the COMMAND listeners and the poetry property work on
appVars == <<_poetry, created, poetryLog, config, commands, envs, output,
             installers, executorCalls, handlers, levels, events, position,
             calls, ops>>

None == 0

Range(s) == {s[i] : i \in 1..Len(s)}

-----------------------------------------------------------------------------
(* Bounds *)

MaxEvents == 2      \* COMMAND events dispatched in one behaviour
MaxOps == 1         \* direct reads of .poetry / reset_poetry calls
MaxLoads == 2       \* loader invocations in one behaviour
MaxWords == 2       \* words per directly loaded name

-----------------------------------------------------------------------------
(* Python string primitives used by load_command and the logger listener *)

LowerLetters == "abcdefghijklmnopqrstuvwxyz"
UpperLetters == "ABCDEFGHIJKLMNOPQRSTUVWXYZ"

CharAt(s, i) == SubSeq(s, i, i)

IsLower(c) == \E i \in 1..Len(LowerLetters) : CharAt(LowerLetters, i) = c
IsUpper(c) == \E i \in 1..Len(UpperLetters) : CharAt(UpperLetters, i) = c
IsCased(c) == IsLower(c) \/ IsUpper(c)

\* str.upper() / str.lower() on one character
ToUpper(c) ==
    IF IsLower(c)
    THEN CharAt(UpperLetters, CHOOSE i \in 1..Len(LowerLetters) : CharAt(LowerLetters, i) = c)
    ELSE c

ToLower(c) ==
    IF IsUpper(c)
    THEN CharAt(LowerLetters, CHOOSE i \in 1..Len(UpperLetters) : CharAt(UpperLetters, i) = c)
    ELSE c

\* str.title(): scan left to right; a cased character is upper-cased when the
\* previous character is not cased and lower-cased otherwise.
RECURSIVE TitleFrom(_, _, _)
TitleFrom(s, i, prevCased) ==
    IF i > Len(s) THEN ""
    ELSE LET c == CharAt(s, i)
         IN  (IF IsCased(c)
              THEN (IF prevCased THEN ToLower(c) ELSE ToUpper(c))
              ELSE c) \o TitleFrom(s, i + 1, IsCased(c))

Title(s) == TitleFrom(s, 1, FALSE)

\* str.split(sep) for a one-character sep: the pieces between occurrences of
\* sep, empty pieces included; always at least one piece.
RECURSIVE SplitFrom(_, _, _, _)
SplitFrom(s, sep, i, piece) ==
    IF i > Len(s) THEN <<piece>>
    ELSE IF CharAt(s, i) = sep
         THEN <<piece>> \o SplitFrom(s, sep, i + 1, "")
         ELSE SplitFrom(s, sep, i + 1, piece \o CharAt(s, i))

Split(s, sep) == SplitFrom(s, sep, 1, "")

\* sep.join(parts)
RECURSIVE Join(_, _)
Join(sep, parts) ==
    IF Len(parts) = 0 THEN ""
    ELSE IF Len(parts) = 1 THEN parts[1]
         ELSE parts[1] \o sep \o Join(sep, Tail(parts))

\* str.startswith(prefix)
StartsWith(s, prefix) ==
    Len(s) >= Len(prefix) /\ SubSeq(s, 1, Len(prefix)) = prefix

\* [f(x) for x in parts]
RECURSIVE MapTitle(_)
MapTitle(parts) ==
    IF Len(parts) = 0 THEN <<>>
    ELSE <<Title(Head(parts))>> \o MapTitle(Tail(parts))

-----------------------------------------------------------------------------
(* load_command and the command registry *)

ModulePrefix == "poetry.console.commands."
ClassSuffix == "Command"

\* "poetry.console.commands.{}".format(".".join(name.split(" ")))
ModuleOf(n) == ModulePrefix \o Join(".", Split(n, " "))

\* variant: title() applied once to the joined words
ClassOfTitleWhole(n) == Title(Join("", Split(n, " "))) \o ClassSuffix

\* "{}Command".format("".join(c.title() for c in name.split(" ")))
ClassOf(n) == Join("", MapTitle(Split(n, " "))) \o ClassSuffix

COMMANDS ==
    << "about", "add", "build", "check", "config", "export", "init",
       "install", "lock", "new", "publish", "remove", "run", "search",
       "shell", "show", "update", "version",
       "cache clear", "cache list",
       "debug info", "debug resolve",
       "env info", "env list", "env remove", "env use",
       "self update" >>

\* load_command(name) only builds the closure _load over name; nothing is
\* imported until the closure is called.
load_command(n) == [closure |-> "_load", name |-> n]

\* _load(): import the module, look the class up, instantiate it.  `id` is the
\* identity of the object command_class() returns.
_load(loader, id) ==
    [name |-> loader.name,
     module |-> ModuleOf(loader.name),
     class |-> ClassOf(loader.name),
     id |-> id]

\* variant: the registry is keyed by the first word of each name
FactoriesByFirstWord ==
    [n \in {Split(COMMANDS[i], " ")[1] : i \in 1..Len(COMMANDS)} |-> load_command(n)]

\* {name: load_command(name) for name in COMMANDS}
Factories == [n \in Range(COMMANDS) |-> load_command(n)]

\* the identity of the object a call of command_class() returns: a new one
NewInstanceId(built) == Len(built) + 1

\* FactoryCommandLoader.get(name): call the registered loader
Get(n) ==
    /\ n \in DOMAIN factories
    /\ Len(instances) < MaxLoads
    /\ LET cmd == _load(factories[n], NewInstanceId(instances))
       IN  /\ instances' = Append(instances, cmd)
           /\ imported' = imported \cup {cmd.module}
    /\ UNCHANGED <<appVars, factories, name, words>>

\* load_command(name)() called directly on an arbitrary name
CallLoader ==
    /\ instances = <<>>
    /\ LET cmd == _load(load_command(name), NewInstanceId(instances))
       IN  /\ instances' = Append(instances, cmd)
           /\ imported' = imported \cup {cmd.module}
    /\ UNCHANGED <<appVars, factories, name, words>>

\* the names load_command is tried on: words over a small alphabet that has a
\* lower-case letter, an upper-case letter and an uncased character
Alphabet == {"a", "B", "-"}

RECURSIVE WordsOfLen(_)
WordsOfLen(k) ==
    IF k = 0 THEN {""}
    ELSE {w \o c : w \in WordsOfLen(k - 1), c \in Alphabet}

\* words of one and of two characters: title() treats the first character of
\* a word and a character after a cased one differently
WordLengths == {1, 2}

Words == UNION {WordsOfLen(k) : k \in WordLengths}

RECURSIVE WordSeqsOfLen(_)
WordSeqsOfLen(k) ==
    IF k = 0 THEN {<<>>}
    ELSE {Append(ws, w) : ws \in WordSeqsOfLen(k - 1), w \in Words}

WordSeqs == UNION {WordSeqsOfLen(k) : k \in 1..MaxWords}

\* a caller's name: words joined by single spaces, or a name of COMMANDS
NameInput ==
    \/ \E ws \in WordSeqs : words = ws /\ name = Join(" ", ws)
    \/ words = <<>> /\ name \in Range(COMMANDS)

NoNameInput == name = "" /\ words = <<>>

-----------------------------------------------------------------------------
(* Application.poetry and reset_poetry *)

\* variant: the object that was built is returned but not stored
PoetryGetterNoStore(p, n) ==
    IF p # None
    THEN [ret |-> p, cached |-> p, created |-> n, built |-> FALSE]
    ELSE [ret |-> n + 1, cached |-> None, created |-> n + 1, built |-> TRUE]

\* The poetry property: return the cached object when there is one, else
\* build one with Factory().create_poetry(), store it and return it.
\* p is _poetry, n the number of objects built so far; a new object gets the
\* next identity.
PoetryGetter(p, n) ==
    IF p # None
    THEN [ret |-> p, cached |-> p, created |-> n, built |-> FALSE]
    ELSE [ret |-> n + 1, cached |-> n + 1, created |-> n + 1, built |-> TRUE]

ReadEntry(r) == [op |-> "read", ret |-> r.ret, built |-> r.built]
ResetEntry == [op |-> "reset", ret |-> None, built |-> FALSE]

\* a read of Application.poetry from outside the listeners
ReadPoetry ==
    /\ position = 0
    /\ ops < MaxOps
    /\ LET r == PoetryGetter(_poetry, created)
       IN  /\ _poetry' = r.cached
           /\ created' = r.created
           /\ poetryLog' = Append(poetryLog, ReadEntry(r))
    /\ ops' = ops + 1
    /\ UNCHANGED <<config, commands, envs, output, installers, executorCalls,
                   handlers, levels, events, position, calls, loaderVars>>

reset_poetry ==
    /\ position = 0
    /\ ops < MaxOps
    /\ _poetry' = None
    /\ poetryLog' = Append(poetryLog, ResetEntry)
    /\ ops' = ops + 1
    /\ UNCHANGED <<created, config, commands, envs, output, installers, executorCalls,
                   handlers, levels, events, position, calls, loaderVars>>

-----------------------------------------------------------------------------
(* Commands and io *)

\* The command classes the listeners test for, and cleo's own base class.
\* EnvCommand derives from Command and InstallerCommand from EnvCommand.
Ancestors(cls) ==
    CASE cls = "BaseCommand" -> {"BaseCommand"}
      [] cls = "Command" -> {"BaseCommand", "Command"}
      [] cls = "EnvCommand" -> {"BaseCommand", "Command", "EnvCommand"}
      [] cls = "InstallerCommand" ->
            {"BaseCommand", "Command", "EnvCommand", "InstallerCommand"}

\* variant: the test is made against cleo's base command class
IsInstanceOfBase(command, cls) == "BaseCommand" \in Ancestors(command.cls)

\* isinstance(command, cls)
IsInstance(command, cls) == cls \in Ancestors(command.cls)

\* The command objects events are dispatched for: one of each class.
CommandClasses ==
    << "BaseCommand", "Command", "EnvCommand", "InstallerCommand" >>

CommandLoggers ==
    << <<>>,
       <<>>,
       << "poetry.core.masonry.builders.builder",
          "poetry.core.masonry.builders.wheel" >>,
       << "poetry.repositories.pypi_repository",
          "poetry.core.masonry.builder" >> >>

CommandIds == 1..Len(CommandClasses)

\* an env or an installer a command was given before any event
Preset == -1

\* cleo's verbosity levels and the io predicates over them
Verbosities == {"normal", "verbose", "very_verbose", "debug"}

VerbosityRank(v) ==
    CASE v = "normal" -> 1
      [] v = "verbose" -> 2
      [] v = "very_verbose" -> 3
      [] v = "debug" -> 4

\* the verbosities of runs in which the log level is of no interest
PlainVerbosities == {"normal", "verbose"}

is_verbose(io) == VerbosityRank(io.verbosity) >= 2
is_very_verbose(io) == VerbosityRank(io.verbosity) >= 3
is_debug(io) == VerbosityRank(io.verbosity) = 4

-----------------------------------------------------------------------------
(* register_command_loggers *)

\* logging's numeric levels
NOTSET == 0
DEBUG == 10
INFO == 20
WARNING == 30

FixedLoggers ==
    << "poetry.packages.locker",
       "poetry.packages.package",
       "poetry.utils.password_manager" >>

BuildersPrefix == "poetry.core.masonry.builders"

LoggerNames ==
    Range(FixedLoggers) \cup UNION {Range(CommandLoggers[c]) : c \in CommandIds}

\* loggers = [...]; loggers += command.loggers
\* The local list is extended in place; command.loggers is another list.
CollectLoggers(commandLoggers) ==
    [local |-> FixedLoggers \o commandLoggers, command |-> commandLoggers]

\* IOHandler(io) with an IOFormatter; `ev` stands for the object's identity
NewHandler(io, ev) == [kind |-> "IOHandler", io |-> io, formatter |-> "IOFormatter", event |-> ev]

\* a handler somebody else attached to a logger
ForeignHandler == [kind |-> "StreamHandler", io |-> [verbosity |-> "normal"], formatter |-> "none", event |-> 0]

\* variant: logger.addHandler(handler)
AddHandler(old, handler) == Append(old, handler)

\* logger.handlers = [handler]
SetHandlers(old, handler) == <<handler>>

\* variant: the verbose test comes before the debug test
LevelForVerboseFirst(io, n) ==
    LET level0 == WARNING
        level1 == IF StartsWith(n, BuildersPrefix) THEN INFO ELSE level0
        level2 == IF is_very_verbose(io) \/ is_verbose(io) THEN INFO
                  ELSE IF is_debug(io) THEN DEBUG
                  ELSE level1
    IN  level2

\* the level computed in the loop body for the logger called n:
\*   level = WARNING; if name.startswith(...): level = INFO
\*   if io.is_debug(): level = DEBUG
\*   elif io.is_very_verbose() or io.is_verbose(): level = INFO
LevelFor(io, n) ==
    LET level0 == WARNING
        level1 == IF StartsWith(n, BuildersPrefix) THEN INFO ELSE level0
        level2 == IF is_debug(io) THEN DEBUG
                  ELSE IF is_very_verbose(io) \/ is_verbose(io) THEN INFO
                  ELSE level1
    IN  level2

\* for logger in loggers: ... ; st is the state of the logging module
RECURSIVE ConfigureLoggers(_, _, _, _)
ConfigureLoggers(st, loggers, handler, io) ==
    IF Len(loggers) = 0 THEN st
    ELSE LET n == Head(loggers)
         IN  ConfigureLoggers(
                 [handlers |-> [st.handlers EXCEPT ![n] = SetHandlers(@, handler)],
                  levels |-> [st.levels EXCEPT ![n] = LevelFor(io, n)]],
                 Tail(loggers), handler, io)

CurrentEvent == events[Len(events)]

\* variant: set_installer registered before set_env
ListenersInstallerFirst == << "register_command_loggers", "set_installer", "set_env" >>

\* dispatcher.add_listener(COMMAND, ...): the listeners in registration order;
\* all have the same priority, so the dispatcher calls them in this order
Listeners == << "register_command_loggers", "set_env", "set_installer" >>

\* the listener the dispatcher calls next, "" when there is none
NextListener ==
    IF position \in 1..Len(Listeners) THEN Listeners[position] ELSE ""

register_command_loggers ==
    /\ NextListener = "register_command_loggers"
    /\ LET ev == CurrentEvent
           command == commands[ev.cmd]
       IN  IF ~IsInstance(command, "Command")
           THEN UNCHANGED <<commands, handlers, levels>>
           ELSE LET loggers == CollectLoggers(command.loggers)
                    handler == NewHandler(ev.io, Len(events))
                    st == ConfigureLoggers([handlers |-> handlers, levels |-> levels],
                                           loggers.local, handler, ev.io)
                IN  /\ commands' = [commands EXCEPT ![ev.cmd].loggers = loggers.command]
                    /\ handlers' = st.handlers
                    /\ levels' = st.levels
    /\ position' = position + 1
    /\ calls' = Append(calls, "register_command_loggers")
    /\ UNCHANGED <<_poetry, created, poetryLog, config, envs, output, installers,
                   executorCalls, events, ops, loaderVars>>

-----------------------------------------------------------------------------
(* set_env *)

\* env_manager.create_venv(io): a new Env object, never None; it may or may
\* not be a virtualenv
CreateVenv(existing, ev, venv) == Append(existing, [event |-> ev, is_venv |-> venv])

set_env ==
    /\ NextListener = "set_env"
    /\ LET ev == CurrentEvent
           command == commands[ev.cmd]
       IN  IF ~IsInstance(command, "EnvCommand")
           THEN UNCHANGED <<_poetry, created, poetryLog, envs, output, commands>>
           ELSE IF command.env # None
           THEN UNCHANGED <<_poetry, created, poetryLog, envs, output, commands>>
           ELSE LET r == PoetryGetter(_poetry, created)   \* command.poetry
                IN  /\ _poetry' = r.cached
                    /\ created' = r.created
                    /\ poetryLog' = Append(poetryLog, ReadEntry(r))
                    /\ \E venv \in BOOLEAN :
                          /\ envs' = CreateVenv(envs, Len(events), venv)
                          /\ output' = IF venv /\ is_verbose(ev.io)
                                       THEN Append(output, Len(envs'))
                                       ELSE output
                    /\ commands' = [commands EXCEPT ![ev.cmd].env = Len(envs')]
    /\ position' = position + 1
    /\ calls' = Append(calls, "set_env")
    /\ UNCHANGED <<config, installers, executorCalls, handlers, levels,
                   events, ops, loaderVars>>

-----------------------------------------------------------------------------
(* set_installer *)

NewInstallerKey == "experimental.new-installer"

\* config.get(key, default)
ConfigGet(cfg, key, default) ==
    IF key \in DOMAIN cfg THEN cfg[key] ELSE default

\* variant: the default given to config.get is True
ExecutorFlagDefaultTrue(cfg) == ConfigGet(cfg, NewInstallerKey, TRUE)

\* the argument of installer.use_executor(...)
ExecutorFlag(cfg) == ConfigGet(cfg, NewInstallerKey, FALSE)

\* Installer(event.io, command.env, poetry.package, poetry.locker,
\*           poetry.pool, poetry.config)
NewInstaller(cmd, io, env, poetry, ev) ==
    [cmd |-> cmd, io |-> io, env |-> env, poetry |-> poetry, event |-> ev,
     strategy |-> "unset"]

\* Installer.use_executor(flag): the new executor when flag is true, the
\* legacy sequential one otherwise
UseExecutor(installer, flag) ==
    [installer EXCEPT !.strategy = IF flag = TRUE THEN "new" ELSE "legacy"]

\* variant: the early return for an existing installer is missing
HasInstallerIgnored(command) == FALSE

\* "If the command already has an installer we skip this step"
HasInstaller(command) == command.installer # None

set_installer ==
    /\ NextListener = "set_installer"
    /\ LET ev == CurrentEvent
           command == commands[ev.cmd]
       IN  IF ~IsInstance(command, "InstallerCommand")
           THEN UNCHANGED <<_poetry, created, poetryLog, installers,
                            executorCalls, commands>>
           ELSE IF HasInstaller(command)
           THEN UNCHANGED <<_poetry, created, poetryLog, installers,
                            executorCalls, commands>>
           ELSE LET r == PoetryGetter(_poetry, created)   \* command.poetry
                    id == Len(installers) + 1
                    installer == NewInstaller(ev.cmd, ev.io, command.env,
                                              r.ret, Len(events))
                    flag == ExecutorFlag(config)
                IN  /\ _poetry' = r.cached
                    /\ created' = r.created
                    /\ poetryLog' = Append(poetryLog, ReadEntry(r))
                    /\ installers' = Append(installers, UseExecutor(installer, flag))
                    /\ executorCalls' = Append(executorCalls,
                           [installer |-> id, flag |-> flag, event |-> Len(events)])
                    /\ commands' = [commands EXCEPT ![ev.cmd].installer = id]
    /\ position' = position + 1
    /\ calls' = Append(calls, "set_installer")
    /\ UNCHANGED <<config, envs, output, handlers, levels, events, ops, loaderVars>>

-----------------------------------------------------------------------------
(* The COMMAND event *)

\* The application dispatches COMMAND for the command it is about to run.
Dispatch(c, io) ==
    /\ position = 0
    /\ Len(events) < MaxEvents
    /\ events' = Append(events, [cmd |-> c, io |-> io,
                                 env0 |-> commands[c].env,
                                 installer0 |-> commands[c].installer])
    /\ position' = 1
    /\ calls' = <<>>
    /\ UNCHANGED <<_poetry, created, poetryLog, config, commands, envs, output,
                   installers, executorCalls, handlers, levels, ops, loaderVars>>

\* after the listeners the command itself runs
RunCommand ==
    /\ position = Len(Listeners) + 1
    /\ position' = 0
    /\ calls' = Append(calls, "run")
    /\ UNCHANGED <<_poetry, created, poetryLog, config, commands, envs, output,
                   installers, executorCalls, handlers, levels, events, ops,
                   loaderVars>>

-----------------------------------------------------------------------------
(* Specifications *)

\* the settings files either leave the key out or give it a boolean
Configs ==
    {[k \in {} |-> TRUE]} \cup {[k \in {NewInstallerKey} |-> b] : b \in BOOLEAN}

\* Application.__init__, with the command objects not yet touched by an event;
\* a command may have been given an env or an installer beforehand
InitApp ==
    /\ _poetry = None
    /\ created = 0
    /\ poetryLog = <<>>
    /\ config \in Configs
    /\ \E e \in {None, Preset}, i \in {None, Preset} :
          commands = [c \in CommandIds |->
              [cls |-> CommandClasses[c],
               env |-> IF CommandClasses[c] = "InstallerCommand" THEN e ELSE None,
               installer |-> IF CommandClasses[c] = "InstallerCommand" THEN i ELSE None,
               loggers |-> CommandLoggers[c]]]
    /\ envs = <<>>
    /\ output = <<>>
    /\ installers = <<>>
    /\ executorCalls = <<>>
    /\ handlers = [n \in LoggerNames |->
                      IF n = FixedLoggers[1] \/ n = CommandLoggers[3][1]
                      THEN <<ForeignHandler>> ELSE <<>>]
    /\ levels = [n \in LoggerNames |-> NOTSET]
    /\ events = <<>>
    /\ position = 0
    /\ calls = <<>>
    /\ ops = 0

InitLoader ==
    /\ factories = Factories
    /\ imported = {}
    /\ instances = <<>>

Init == InitApp /\ InitLoader /\ NoNameInput

\* the poetry property and the listeners that inject env and installer; the
\* io verbosity plays no part in them
Next ==
    \/ ReadPoetry
    \/ reset_poetry
    \/ \E c \in CommandIds, v \in PlainVerbosities : Dispatch(c, [verbosity |-> v])
    \/ register_command_loggers
    \/ set_env
    \/ set_installer
    \/ RunCommand

Spec == Init /\ [][Next]_vars

\* an Application with nothing preset
InitPlain ==
    /\ InitApp
    /\ config = [k \in {} |-> TRUE]
    /\ \A c \in CommandIds : commands[c].env = None /\ commands[c].installer = None

\* events at every verbosity
InitLogging == InitPlain /\ InitLoader /\ NoNameInput

NextLogging ==
    \/ \E c \in CommandIds, v \in Verbosities : Dispatch(c, [verbosity |-> v])
    \/ register_command_loggers
    \/ set_env
    \/ set_installer
    \/ RunCommand

SpecLogging == InitLogging /\ [][NextLogging]_vars

\* the command loader of a constructed Application
InitRegistry == InitPlain /\ InitLoader /\ NoNameInput

NextRegistry == \E n \in Range(COMMANDS) : Get(n)

SpecRegistry == InitRegistry /\ [][NextRegistry]_vars

\* load_command called directly on each of the names
InitName == InitPlain /\ InitLoader /\ NameInput

NextName == CallLoader

SpecName == InitName /\ [][NextName]_vars

-----------------------------------------------------------------------------
(* Properties *)

Indices(seq) == 1..Len(seq)

\* listener l has been called for event k
ListenerDone(k, l) ==
    k < Len(events) \/ (k = Len(events) /\ l \in Range(calls))

\* C1: every Installer built by set_installer gets exactly one use_executor
\* call, whose argument is the value of "experimental.new-installer" in the
\* configuration, False when the key is absent; the new executor is selected
\* exactly when the key is set to true and the legacy one otherwise.
C1_ExecutorFollowsFlag ==
    \A i \in Indices(installers) :
        LET mine == {k \in Indices(executorCalls) : executorCalls[k].installer = i}
            keyTrue == "experimental.new-installer" \in DOMAIN config
                       /\ config["experimental.new-installer"] = TRUE
        IN  /\ Cardinality(mine) = 1
            /\ \A k \in mine :
                  /\ "experimental.new-installer" \in DOMAIN config
                        => executorCalls[k].flag = config["experimental.new-installer"]
                  /\ "experimental.new-installer" \notin DOMAIN config
                        => executorCalls[k].flag = FALSE
            /\ (installers[i].strategy = "new") <=> keyTrue
            /\ (installers[i].strategy = "legacy") <=> ~keyTrue

C1_Witness ==
    /\ DOMAIN config = {}
    /\ \E i \in Indices(installers) : installers[i].strategy = "legacy"
    /\ Len(executorCalls) = 1

\* entry i of the log is a read; no reset_poetry among entries i..j
IsRead(i) == poetryLog[i].op = "read"
NoResetBetween(i, j) == \A k \in i..j : poetryLog[k].op # "reset"

StepOf(l) == NextListener = l /\ position' = position + 1
ClassOfEventCommand == commands[CurrentEvent.cmd].cls

\* C3: a listener called for a command that lacks its capability changes
\* nothing but the dispatcher's progress, and no listener changes a command
\* other than the event's.
C3_ListenersSkipOtherCommands ==
    [][ /\ (StepOf("register_command_loggers") /\ ClassOfEventCommand = "BaseCommand")
            => UNCHANGED <<_poetry, created, poetryLog, config, commands, envs,
                           output, installers, executorCalls, handlers, levels,
                           events, ops, loaderVars>>
        /\ (StepOf("set_env") /\ ClassOfEventCommand \in {"BaseCommand", "Command"})
            => UNCHANGED <<_poetry, created, poetryLog, config, commands, envs,
                           output, installers, executorCalls, handlers, levels,
                           events, ops, loaderVars>>
        /\ (StepOf("set_installer") /\ ClassOfEventCommand # "InstallerCommand")
            => UNCHANGED <<_poetry, created, poetryLog, config, commands, envs,
                           output, installers, executorCalls, handlers, levels,
                           events, ops, loaderVars>>
        /\ NextListener # ""
            => \A c \in CommandIds \ {CurrentEvent.cmd} : commands'[c] = commands[c]
      ]_vars

C3_Witness ==
    /\ position = Len(Listeners) + 1
    /\ calls = << "register_command_loggers", "set_env", "set_installer" >>
    /\ ClassOfEventCommand = "BaseCommand"
    /\ \E n \in LoggerNames : handlers[n] = <<ForeignHandler>>

\* title case stated per position: a cased character is upper case at the
\* start of the word and after an uncased character, lower case after a
\* cased one; other characters stay
TitleChar(w, i) ==
    LET c == CharAt(w, i)
    IN  IF ~IsCased(c) THEN c
        ELSE IF i > 1 /\ IsCased(CharAt(w, i - 1)) THEN ToLower(c)
        ELSE ToUpper(c)

RECURSIVE TitledUpTo(_, _)
TitledUpTo(w, i) == IF i = 0 THEN "" ELSE TitledUpTo(w, i - 1) \o TitleChar(w, i)

RECURSIVE TitledWords(_)
TitledWords(ws) ==
    IF Len(ws) = 0 THEN ""
    ELSE TitledUpTo(Head(ws), Len(Head(ws))) \o TitledWords(Tail(ws))

\* C4: for a name made of words joined by single spaces, the loader imports
\* "poetry.console.commands." + the words joined by "." and instantiates the
\* class named by the title-cased words + "Command"; two different names of
\* COMMANDS never give the same (module, class).
C4_LoaderTarget ==
    \A i \in Indices(instances) :
        LET cmd == instances[i]
        IN  /\ (words # <<>> /\ cmd.name = Join(" ", words)) =>
                  /\ cmd.module = "poetry.console.commands." \o Join(".", words)
                  /\ cmd.class = TitledWords(words) \o "Command"
            /\ cmd.name = "cache clear" =>
                  /\ cmd.module = "poetry.console.commands.cache.clear"
                  /\ cmd.class = "CacheClearCommand"
            /\ cmd.name \in Range(COMMANDS) =>
                  \A m \in Range(COMMANDS) \ {cmd.name} :
                      <<ModuleOf(m), ClassOf(m)>> # <<cmd.module, cmd.class>>

C4_Witness ==
    /\ Len(instances) = 1
    /\ words = << "aB", "-a" >>
    /\ instances[1].name = "aB -a"
    /\ instances[1].module = "poetry.console.commands.aB.-a"
    /\ instances[1].class = "Ab-ACommand"

\* C5: the constructed Application has one loader per name of COMMANDS, no
\* name missing or duplicated, install/update/lock/remove/add/show/export
\* among them; nothing is imported or instantiated before a loader is called,
\* only the modules of called loaders are imported, and every call returns a
\* new instance.
C5_LazyRegistry ==
    /\ DOMAIN factories = Range(COMMANDS)
    /\ Cardinality(DOMAIN factories) = Len(COMMANDS)
    /\ \A n \in DOMAIN factories : factories[n].name = n
    /\ {"install", "update", "lock", "remove", "add", "show", "export"}
          \subseteq DOMAIN factories
    /\ imported = {instances[i].module : i \in Indices(instances)}
    /\ \A i \in Indices(instances) :
          /\ instances[i].name \in DOMAIN factories
          /\ instances[i].module = ModuleOf(instances[i].name)
    /\ \A i, j \in Indices(instances) : i # j => instances[i].id # instances[j].id

C5_Witness ==
    /\ Len(instances) = 2
    /\ instances[1].name = "install"
    /\ instances[2].name = "install"
    /\ imported = {"poetry.console.commands.install"}

\* what the dispatcher calls for one event
CallOrder == << "register_command_loggers", "set_env", "set_installer", "run" >>

\* C6: for every event the dispatcher calls register_command_loggers, set_env,
\* set_installer and then the command, in that order; an Installer built for
\* a command that had neither env nor installer when the event was dispatched
\* is built with the env set_env created in the same event, never with None.
C6_EnvBeforeInstaller ==
    /\ Len(calls) <= Len(CallOrder)
    /\ calls = SubSeq(CallOrder, 1, Len(calls))
    /\ (position = 0 /\ Len(events) > 0) => calls = CallOrder
    /\ \A i \in Indices(installers) :
          LET ev == events[installers[i].event]
          IN  (ev.env0 = None /\ ev.installer0 = None) =>
                  /\ installers[i].env # None
                  /\ installers[i].env \in Indices(envs)
                  /\ envs[installers[i].env].event = installers[i].event
                  /\ commands[installers[i].cmd].env = installers[i].env

C6_Witness ==
    /\ position = 0
    /\ \E i \in Indices(installers) :
          /\ events[installers[i].event].env0 = None
          /\ events[installers[i].event].installer0 = None
          /\ installers[i].env = 1

\* C7: an event dispatched for a command that already has an installer builds
\* no Installer, calls use_executor on nothing and leaves command.installer
\* as it was; at most one Installer is ever built for a command.
C7_InstallerKept ==
    /\ \A k \in Indices(events) :
          events[k].installer0 # None =>
              /\ \A i \in Indices(installers) : installers[i].event # k
              /\ \A x \in Indices(executorCalls) : executorCalls[x].event # k
              /\ commands[events[k].cmd].installer = events[k].installer0
    /\ \A c \in CommandIds :
          Cardinality({i \in Indices(installers) : installers[i].cmd = c}) <= 1

C7_Witness ==
    /\ position = 0
    /\ Len(events) = 2
    /\ events[1].cmd = events[2].cmd
    /\ events[1].installer0 = None
    /\ events[2].installer0 = 1
    /\ Len(installers) = 1

\* the latest event whose register_command_loggers call configured logger n,
\* 0 when there is none
ConfiguredBy(n) ==
    {k \in Indices(events) :
        /\ ListenerDone(k, "register_command_loggers")
        /\ CommandClasses[events[k].cmd] # "BaseCommand"
        /\ n \in Range(FixedLoggers) \cup Range(CommandLoggers[events[k].cmd])}

LastConfiguredBy(n) ==
    IF ConfiguredBy(n) = {} THEN 0
    ELSE CHOOSE k \in ConfiguredBy(n) : \A j \in ConfiguredBy(n) : j <= k

\* the level stated for a logger called n configured with io
ExpectedLevel(io, n) ==
    IF io.verbosity = "debug" THEN 10
    ELSE IF io.verbosity \in {"verbose", "very_verbose"} THEN 20
    ELSE IF StartsWith(n, "poetry.core.masonry.builders") THEN 20
    ELSE 30

\* C8: a configured logger's level is DEBUG when io.is_debug(); otherwise
\* INFO when io.is_verbose() or io.is_very_verbose(); otherwise INFO when its
\* name starts with "poetry.core.masonry.builders" and WARNING when not.
C8_LevelFromVerbosityAndName ==
    \A n \in LoggerNames :
        LastConfiguredBy(n) > 0 =>
            /\ levels[n] = ExpectedLevel(events[LastConfiguredBy(n)].io, n)
            /\ levels[n] \in {10, 20, 30}

C8_Witness ==
    /\ Len(events) = 2
    /\ position = 0
    /\ events[1].io.verbosity = "normal"
    /\ events[1].cmd = Len(CommandClasses)
    /\ events[2].io.verbosity = "debug"
    /\ events[2].cmd = 3
    /\ levels["poetry.core.masonry.builders.wheel"] = 10
    /\ levels["poetry.core.masonry.builder"] = 30
    /\ levels["poetry.packages.locker"] = 10

\* C9: every logger an event configured has exactly one handler, the
\* IOHandler made for the latest event that configured it, and no command's
\* loggers list differs from what it was before the events.
C9_OneHandlerPerLogger ==
    /\ \A n \in LoggerNames :
          LastConfiguredBy(n) > 0 =>
              /\ Len(handlers[n]) = 1
              /\ handlers[n][1].kind = "IOHandler"
              /\ handlers[n][1].event = LastConfiguredBy(n)
              /\ handlers[n][1].io = events[LastConfiguredBy(n)].io
    /\ \A c \in CommandIds : commands[c].loggers = CommandLoggers[c]

C9_Witness ==
    /\ Len(events) = 2
    /\ position = 0
    /\ events[1].cmd = 3
    /\ events[2].cmd = 2
    /\ Len(handlers["poetry.packages.locker"]) = 1
    /\ handlers["poetry.packages.locker"][1].event = 2
    /\ handlers["poetry.core.masonry.builders.builder"][1].event = 1

====
